---- MODULE Spec2Model ----
(***************************************************************************)
(* Model of scrape_closings.py: the classifiers (classify_status,          *)
(* classify_region), the two scrapers' record construction, the            *)
(* deduplication loop (deduplicate_closings) and main's assembly of the    *)
(* result payload.  Texts are TLA+ strings; Len, SubSeq and \o act on      *)
(* them character by character.                                           *)
(***************************************************************************)
EXTENDS Integers, Sequences, FiniteSets, TLC

VARIABLES pc, closings, all_closings, sources_used, dd_closings, seen, idx, output

vars == <<pc, closings, all_closings, sources_used, dd_closings, seen, idx, output>>

(***************************************************************************)
(* Bounds of the model.                                                    *)
(***************************************************************************)
\* most records the three pages deliver together in one run
MaxRecords == 3

\* most articles of the page when the classifiers alone are exercised
MaxArticles == 1

(***************************************************************************)
(* Python string primitives.                                               *)
(***************************************************************************)
LOWER == "abcdefghijklmnopqrstuvwxyz"
UPPER == "ABCDEFGHIJKLMNOPQRSTUVWXYZ"

LowerChars == {SubSeq(LOWER, i, i) : i \in 1..Len(LOWER)}

UpperMap ==
  [c \in LowerChars |->
     LET i == CHOOSE j \in 1..Len(LOWER) : SubSeq(LOWER, j, j) = c
     IN  SubSeq(UPPER, i, i)]

upperChar(c) == IF c \in LowerChars THEN UpperMap[c] ELSE c

RECURSIVE upper(_)
\* str.upper()
upper(s) ==
  IF s = "" THEN ""
  ELSE upperChar(SubSeq(s, 1, 1)) \o upper(SubSeq(s, 2, Len(s)))

IsSpace(c) == c = " "

RECURSIVE lstrip(_)
lstrip(s) ==
  IF s # "" /\ IsSpace(SubSeq(s, 1, 1)) THEN lstrip(SubSeq(s, 2, Len(s))) ELSE s

RECURSIVE rstrip(_)
rstrip(s) ==
  IF s # "" /\ IsSpace(SubSeq(s, Len(s), Len(s)))
  THEN rstrip(SubSeq(s, 1, Len(s) - 1)) ELSE s

\* str.strip()
strip(s) == rstrip(lstrip(s))

\* Python's  sub in s  on strings (the empty string is in every string)
Contains(s, sub) ==
  \E i \in 0..(Len(s) - Len(sub)) : SubSeq(s, i + 1, i + Len(sub)) = sub

(***************************************************************************)
(* Region mappings.  A Python dict iterates in insertion order; a key      *)
(* written twice in the literal keeps its first position and its last      *)
(* value ("Marshall" in COUNTY_REGIONS).                                   *)
(***************************************************************************)
East == "East Tennessee"
Middle == "Middle Tennessee"
West == "West Tennessee"
Other == "Other"

Regions == {East, Middle, West, Other}

DISTRICT_TO_REGION ==
  <<
     <<"Anderson County Schools", East>>, <<"Clinton City Schools", East>>,
     <<"Oak Ridge City Schools", East>>, <<"Bledsoe County Schools", East>>,
     <<"Alcoa City Schools", East>>, <<"Blount County Schools", East>>,
     <<"Maryville City Schools", East>>, <<"Bradley County Schools", East>>,
     <<"Cleveland City Schools", East>>, <<"Campbell County Schools", East>>,
     <<"Carter County Schools", East>>, <<"Elizabethton City Schools", East>>,
     <<"Claiborne County Schools", East>>, <<"Cocke County Schools", East>>,
     <<"Newport City Schools", East>>, <<"Cumberland County Schools", East>>,
     <<"Grainger County Schools", East>>, <<"Greene County Schools", East>>,
     <<"Greeneville City Schools", East>>, <<"Hamblen County Schools", East>>,
     <<"Morristown City Schools", East>>, <<"Hamilton County Schools", East>>,
     <<"Hamilton County Department of Education", East>>, <<"Hancock County Schools", East>>,
     <<"Hawkins County Schools", East>>, <<"Rogersville City Schools", East>>,
     <<"Jefferson County Schools", East>>, <<"Johnson County Schools", East>>,
     <<"Knox County Schools", East>>, <<"Loudon County Schools", East>>,
     <<"Lenoir City Schools", East>>, <<"Marion County Schools", East>>,
     <<"McMinn County Schools", East>>, <<"Athens City Schools", East>>,
     <<"Etowah City Schools", East>>, <<"Meigs County Schools", East>>,
     <<"Monroe County Schools", East>>, <<"Sweetwater City Schools", East>>,
     <<"Morgan County Schools", East>>, <<"Polk County Schools", East>>,
     <<"Rhea County Schools", East>>, <<"Dayton City Schools", East>>,
     <<"Roane County Schools", East>>, <<"Scott County Schools", East>>,
     <<"Sevier County Schools", East>>, <<"Sullivan County Schools", East>>,
     <<"Bristol Tennessee City Schools", East>>, <<"Bristol City Schools", East>>,
     <<"Kingsport City Schools", East>>, <<"Unicoi County Schools", East>>,
     <<"Union County Schools", East>>, <<"Washington County Schools", East>>,
     <<"Johnson City Schools", East>>, <<"Maryville Christian School", East>>,
     <<"Maryville College", East>>, <<"Legacy Christian Academy", East>>,
     <<"Cleveland State College", East>>, <<"Cleveland State Community College", East>>,
     <<"Bedford County Schools", Middle>>, <<"Cannon County Schools", Middle>>,
     <<"Cheatham County Schools", Middle>>, <<"Clay County Schools", Middle>>,
     <<"Coffee County Schools", Middle>>, <<"Manchester City Schools", Middle>>,
     <<"Manchester City Sch.", Middle>>, <<"Tullahoma City Schools", Middle>>,
     <<"Tullahoma City Sch.", Middle>>, <<"Achievement School District", Middle>>,
     <<"Metropolitan Nashville Public Schools", Middle>>,
     <<"Metro Nashville Public Schools", Middle>>, <<"MNPS", Middle>>,
     <<"Tennessee Public Charter School Commission", Middle>>,
     <<"Dekalb County Schools", Middle>>, <<"DeKalb County Schools", Middle>>,
     <<"Dickson County Schools", Middle>>, <<"Fentress County Schools", Middle>>,
     <<"Alvin C. York Agricultural Institute", Middle>>, <<"Franklin County Schools", Middle>>,
     <<"Giles County Schools", Middle>>, <<"Grundy County Schools", Middle>>,
     <<"Hickman County Schools", Middle>>, <<"Houston County Schools", Middle>>,
     <<"Humphreys County Schools", Middle>>, <<"Jackson County Schools", Middle>>,
     <<"Lawrence County Schools", Middle>>, <<"Lewis County Schools", Middle>>,
     <<"Lincoln County Schools", Middle>>, <<"Fayetteville City Schools", Middle>>,
     <<"Macon County Schools", Middle>>, <<"Marshall County Schools", Middle>>,
     <<"Maury County Schools", Middle>>, <<"Maury County Public Schools", Middle>>,
     <<"Columbia City Schools", Middle>>, <<"Montgomery County Schools", Middle>>,
     <<"Clarksville-Montgomery County Schools", Middle>>,
     <<"Clarksville-Montgomery County School System", Middle>>, <<"CMCSS", Middle>>,
     <<"Moore County Schools", Middle>>, <<"Overton County Schools", Middle>>,
     <<"Perry County Schools", Middle>>, <<"Pickett County Schools", Middle>>,
     <<"Putnam County Schools", Middle>>, <<"Putnam County School System", Middle>>,
     <<"Robertson County Schools", Middle>>, <<"Rutherford County Schools", Middle>>,
     <<"Murfreesboro City Schools", Middle>>, <<"Sequatchie County Schools", Middle>>,
     <<"Smith County Schools", Middle>>, <<"Stewart County Schools", Middle>>,
     <<"Sumner County Schools", Middle>>, <<"Trousdale County Schools", Middle>>,
     <<"Van Buren County Schools", Middle>>, <<"Warren County Schools", Middle>>,
     <<"Wayne County Schools", Middle>>, <<"White County Schools", Middle>>,
     <<"Williamson County Schools", Middle>>, <<"Franklin Special School District", Middle>>,
     <<"Wilson County Schools", Middle>>, <<"Lebanon Special School District", Middle>>,
     <<"Lancaster Academy", Middle>>, <<"Lancaster Early Learn. Centers", Middle>>,
     <<"Redeemer Academy", Middle>>, <<"St. Patrick", Middle>>,
     <<"Trevecca Nazarene University", Middle>>,
     <<"TriStar Cottage & Homeschool Co-op", Middle>>, <<"Clarksville Christian", Middle>>,
     <<"Lead Acad.-Goodlettsville", Middle>>, <<"Nashville State-Clarksville", Middle>>,
     <<"Nashville State-Dickson", Middle>>, <<"Nashville State-Humphreys Co.", Middle>>,
     <<"Nashville State-North Davidson", Middle>>, <<"Nashville State-Southeast", Middle>>,
     <<"Nashville State-White Bridge", Middle>>, <<"Franklin Spec. Sch. Dist.", Middle>>,
     <<"Gen. Sessions Court-Davidson Co.", Middle>>, <<"Benton County Schools", West>>,
     <<"Hollow Rock-Bruceton Special School District", West>>,
     <<"Huntingdon Special Schools", West>>, <<"McKenzie Special School District", West>>,
     <<"South Carroll Special School District", West>>,
     <<"West Carroll Special School District", West>>, <<"Carroll County Schools", West>>,
     <<"Chester County Schools", West>>, <<"Alamo City Schools", West>>,
     <<"Bells City Schools", West>>, <<"Bells City School", West>>,
     <<"Crockett County Schools", West>>, <<"Decatur County Schools", West>>,
     <<"Dyer County Schools", West>>, <<"Dyersburg City Schools", West>>,
     <<"Fayette County Schools", West>>, <<"Fayette County Public Schools", West>>,
     <<"Bradford Special Schools", West>>, <<"Gibson County Special School District", West>>,
     <<"Humboldt City Schools", West>>, <<"Milan Special School District", West>>,
     <<"Trenton City Schools", West>>, <<"Hardeman County Schools", West>>,
     <<"Hardin County Schools", West>>, <<"Haywood County Schools", West>>,
     <<"Henderson County Schools", West>>, <<"Lexington City Schools", West>>,
     <<"Henry County Schools", West>>, <<"Paris Special School District", West>>,
     <<"Lake County Schools", West>>, <<"Lauderdale County Schools", West>>,
     <<"Madison County Schools", West>>, <<"Jackson-Madison County Schools", West>>,
     <<"Jackson-Madison County School System", West>>, <<"McNairy County Schools", West>>,
     <<"Obion County Schools", West>>, <<"Union City Schools", West>>,
     <<"Shelby County Schools", West>>, <<"Memphis-Shelby County Schools", West>>,
     <<"Memphis Shelby County Schools", West>>, <<"Arlington Community Schools", West>>,
     <<"Bartlett City Schools", West>>, <<"Collierville Schools", West>>,
     <<"Collierville School District", West>>,
     <<"Germantown Municipal School District", West>>, <<"Lakeland School System", West>>,
     <<"Millington Municipal Schools", West>>, <<"Tipton County Schools", West>>,
     <<"Covington City Schools", West>>, <<"Weakley County Schools", West>>,
     <<"Briarcrest Christian School", West>>, <<"Christian Brothers High School", West>>,
     <<"Evangelical Christian School", West>>, <<"St. Benedict at Auburndale", West>>,
     <<"St. Benedict at Aurburndale High School", West>>,
     <<"Woodland Presbyterian School", West>>, <<"Immanuel Lutheran School", West>>,
     <<"Christ the King Lutheran School", West>>, <<"First Assembly Christian School", West>>,
     <<"New Hope Christian Academy", West>>, <<"Compass Community Schools", West>>,
     <<"Concord Academy", West>>, <<"Freedom Preparatory Academy", West>>,
     <<"Freedom Prep Academy", West>>, <<"KIPP Memphis Public Schools", West>>,
     <<"Power Center Academy", West>>, <<"STAR Academy Charter School", West>>,
     <<"Magnolia Heights", West>>, <<"Pleasant View School", West>>,
     <<"Nova Life Coach Academy", West>>,
     <<"Expanded Educational Services Success Academy", West>>, <<"Rhodes College", West>>,
     <<"University of Memphis", West>>, <<"Mid-America Baptist Theological Seminary", West>>,
     <<"LeMoyne-Owen College", West>>, <<"Lafayette County School District", West>>,
     <<"Oxford School District", West>>, <<"Senatobia Municipal School District", West>>,
     <<"South Panola School District", West>>, <<"Tate County School District", West>>,
     <<"Northwest Mississippi Community College", West>>,
     <<"University of Mississippi", West>>
  >>

COUNTY_REGIONS ==
  <<
     <<"Anderson", East>>, <<"Bledsoe", East>>, <<"Blount", East>>, <<"Bradley", East>>,
     <<"Campbell", East>>, <<"Carter", East>>, <<"Claiborne", East>>, <<"Cocke", East>>,
     <<"Cumberland", East>>, <<"Grainger", East>>, <<"Greene", East>>, <<"Hamblen", East>>,
     <<"Hamilton", East>>, <<"Hancock", East>>, <<"Hawkins", East>>, <<"Jefferson", East>>,
     <<"Johnson", East>>, <<"Knox", East>>, <<"Loudon", East>>, <<"Marion", East>>,
     <<"McMinn", East>>, <<"Meigs", East>>, <<"Monroe", East>>, <<"Morgan", East>>,
     <<"Polk", East>>, <<"Rhea", East>>, <<"Roane", East>>, <<"Scott", East>>,
     <<"Sevier", East>>, <<"Sullivan", East>>, <<"Unicoi", East>>, <<"Union", East>>,
     <<"Washington", East>>, <<"Bedford", Middle>>, <<"Cannon", Middle>>,
     <<"Cheatham", Middle>>, <<"Clay", Middle>>, <<"Coffee", Middle>>, <<"Davidson", Middle>>,
     <<"DeKalb", Middle>>, <<"Dickson", Middle>>, <<"Fentress", Middle>>,
     <<"Franklin", Middle>>, <<"Giles", Middle>>, <<"Grundy", Middle>>, <<"Hickman", Middle>>,
     <<"Houston", Middle>>, <<"Humphreys", Middle>>, <<"Jackson", Middle>>,
     <<"Lawrence", Middle>>, <<"Lewis", Middle>>, <<"Lincoln", Middle>>, <<"Macon", Middle>>,
     <<"Marshall", West>>, <<"Maury", Middle>>, <<"Montgomery", Middle>>, <<"Moore", Middle>>,
     <<"Overton", Middle>>, <<"Perry", Middle>>, <<"Pickett", Middle>>, <<"Putnam", Middle>>,
     <<"Robertson", Middle>>, <<"Rutherford", Middle>>, <<"Sequatchie", Middle>>,
     <<"Smith", Middle>>, <<"Stewart", Middle>>, <<"Sumner", Middle>>, <<"Trousdale", Middle>>,
     <<"Van Buren", Middle>>, <<"Warren", Middle>>, <<"Wayne", Middle>>, <<"White", Middle>>,
     <<"Williamson", Middle>>, <<"Wilson", Middle>>, <<"Benton", West>>, <<"Carroll", West>>,
     <<"Chester", West>>, <<"Crockett", West>>, <<"Decatur", West>>, <<"Dyer", West>>,
     <<"Fayette", West>>, <<"Gibson", West>>, <<"Hardeman", West>>, <<"Hardin", West>>,
     <<"Haywood", West>>, <<"Henderson", West>>, <<"Henry", West>>, <<"Lake", West>>,
     <<"Lauderdale", West>>, <<"Madison", West>>, <<"McNairy", West>>, <<"Obion", West>>,
     <<"Shelby", West>>, <<"Tipton", West>>, <<"Weakley", West>>, <<"Lafayette", West>>,
     <<"Panola", West>>, <<"Tate", West>>, <<"DeSoto", West>>
  >>

CITY_REGIONS ==
  <<
     <<"Knoxville", East>>, <<"Chattanooga", East>>, <<"Johnson City", East>>,
     <<"Kingsport", East>>, <<"Bristol", East>>, <<"Morristown", East>>, <<"Cleveland", East>>,
     <<"Maryville", East>>, <<"Oak Ridge", East>>, <<"Athens", East>>, <<"Greeneville", East>>,
     <<"Elizabethton", East>>, <<"Sevierville", East>>, <<"Pigeon Forge", East>>,
     <<"Gatlinburg", East>>, <<"Nashville", Middle>>, <<"Murfreesboro", Middle>>,
     <<"Franklin", Middle>>, <<"Clarksville", Middle>>, <<"Columbia", Middle>>,
     <<"Gallatin", Middle>>, <<"Hendersonville", Middle>>, <<"Lebanon", Middle>>,
     <<"Cookeville", Middle>>, <<"Shelbyville", Middle>>, <<"Tullahoma", Middle>>,
     <<"Manchester", Middle>>, <<"Dickson", Middle>>, <<"Springfield", Middle>>,
     <<"Portland", Middle>>, <<"Smyrna", Middle>>, <<"La Vergne", Middle>>,
     <<"Spring Hill", Middle>>, <<"Goodlettsville", Middle>>, <<"White House", Middle>>,
     <<"McMinnville", Middle>>, <<"Memphis", West>>, <<"Jackson", West>>, <<"Bartlett", West>>,
     <<"Collierville", West>>, <<"Germantown", West>>, <<"Dyersburg", West>>,
     <<"Millington", West>>, <<"Covington", West>>, <<"Ripley", West>>, <<"Savannah", West>>,
     <<"Selmer", West>>, <<"Bolivar", West>>, <<"Lexington", West>>, <<"Henderson", West>>,
     <<"Humboldt", West>>, <<"Milan", West>>, <<"Trenton", West>>, <<"Union City", West>>,
     <<"Paris", West>>, <<"Martin", West>>, <<"McKenzie", West>>, <<"Oxford", West>>,
     <<"Senatobia", West>>
  >>

\* key in table  /  table[key]
HasKey(table, k) == \E i \in 1..Len(table) : table[i][1] = k
Lookup(table, k) == table[CHOOSE i \in 1..Len(table) : table[i][1] = k][2]

\* The keys of the three tables, upper-cased (district.upper(), ...).
DistrictUpper == [i \in 1..Len(DISTRICT_TO_REGION) |-> upper(DISTRICT_TO_REGION[i][1])]
CountyUpper == [i \in 1..Len(COUNTY_REGIONS) |-> upper(COUNTY_REGIONS[i][1])]
CityUpper == [i \in 1..Len(CITY_REGIONS) |-> upper(CITY_REGIONS[i][1])]

\* for district, region in DISTRICT_TO_REGION.items(): the partial-match test
PartialHit(i, name_upper) ==
  Contains(name_upper, DistrictUpper[i]) \/ Contains(DistrictUpper[i], name_upper)

RECURSIVE ScanPartial(_, _, _)
\* the loop of layer 2 over entries lo..hi, in order: the region of the first
\* hit, or "" for none (the range is halved to keep the evaluation shallow)
ScanPartial(lo, hi, name_upper) ==
  IF lo > hi THEN ""
  ELSE IF lo = hi
    THEN IF PartialHit(lo, name_upper) THEN DISTRICT_TO_REGION[lo][2] ELSE ""
  ELSE LET mid == (lo + hi) \div 2
           first == ScanPartial(lo, mid, name_upper)
       IN  IF first # "" THEN first ELSE ScanPartial(mid + 1, hi, name_upper)

RECURSIVE ScanKeys(_, _, _, _, _)
\* the loops of layers 3 and 4 over entries lo..hi, in order: the region of
\* the first key found in name_upper, or "" for none
ScanKeys(table, uppers, lo, hi, name_upper) ==
  IF lo > hi THEN ""
  ELSE IF lo = hi
    THEN IF Contains(name_upper, uppers[lo]) THEN table[lo][2] ELSE ""
  ELSE LET mid == (lo + hi) \div 2
           first == ScanKeys(table, uppers, lo, mid, name_upper)
       IN  IF first # "" THEN first
           ELSE ScanKeys(table, uppers, mid + 1, hi, name_upper)

\* layers 3 and 4 in the other order
classify_region_CityFirst(name) ==
  LET name_clean == strip(name)
      name_upper == upper(name_clean)
      partial == ScanPartial(1, Len(DISTRICT_TO_REGION), name_upper)
      county == ScanKeys(COUNTY_REGIONS, CountyUpper, 1, Len(COUNTY_REGIONS), name_upper)
      city == ScanKeys(CITY_REGIONS, CityUpper, 1, Len(CITY_REGIONS), name_upper)
  IN  IF HasKey(DISTRICT_TO_REGION, name_clean)
        THEN Lookup(DISTRICT_TO_REGION, name_clean)
      ELSE IF partial # "" THEN partial
      ELSE IF city # "" THEN city
      ELSE IF county # "" THEN county
      ELSE Other

classify_region(name) ==
  LET name_clean == strip(name)
      name_upper == upper(name_clean)
      partial == ScanPartial(1, Len(DISTRICT_TO_REGION), name_upper)
      county == ScanKeys(COUNTY_REGIONS, CountyUpper, 1, Len(COUNTY_REGIONS), name_upper)
      city == ScanKeys(CITY_REGIONS, CityUpper, 1, Len(CITY_REGIONS), name_upper)
  IN  IF HasKey(DISTRICT_TO_REGION, name_clean)
        THEN Lookup(DISTRICT_TO_REGION, name_clean)
      ELSE IF partial # "" THEN partial
      ELSE IF county # "" THEN county
      ELSE IF city # "" THEN city
      ELSE Other

(***************************************************************************)
(* Status classification.                                                  *)
(***************************************************************************)
DelayedKw == <<"2 HOUR", "2-HOUR", "TWO HOUR", "1 HOUR", "1-HOUR", "DELAY">>
EarlyKw == <<"EARLY", "DISMISS", "CLOSING AT", "CLOSES AT">>
RemoteKw == <<"REMOTE", "VIRTUAL", "DISTANCE", "ONLINE">>
ClosedKw == <<"CLOSED", "CANCEL", "NO SCHOOL", "THROUGH">>

\* any(kw in text for kw in kws)
AnyKw(kws, text) == \E i \in 1..Len(kws) : Contains(text, kws[i])

\* the CLOSED keywords tested first
classify_status_ClosedFirst(status_text) ==
  LET text == upper(status_text)
  IN  IF AnyKw(ClosedKw, text) THEN "CLOSED"
      ELSE IF AnyKw(DelayedKw, text) THEN "DELAYED"
      ELSE IF AnyKw(EarlyKw, text) THEN "EARLY_DISMISSAL"
      ELSE IF AnyKw(RemoteKw, text) THEN "REMOTE"
      ELSE "CLOSED"

classify_status(status_text) ==
  LET text == upper(status_text)
  IN  IF AnyKw(DelayedKw, text) THEN "DELAYED"
      ELSE IF AnyKw(EarlyKw, text) THEN "EARLY_DISMISSAL"
      ELSE IF AnyKw(RemoteKw, text) THEN "REMOTE"
      ELSE IF AnyKw(ClosedKw, text) THEN "CLOSED"
      ELSE "CLOSED"

(***************************************************************************)
(* What the pages can hold.  A cell is <<text>>, or <<>> when the element  *)
(* is missing from the row.                                                *)
(***************************************************************************)
NC5Names ==
  {"Maury County Public Schools", "Maury County Schools", "maury county schools"}
NC5Status == {<<"Closed">>, <<"Remote">>}
AN5Names == {"Maury County Schools", "maury county schools"}
AN5Status == {<<"Closed">>, <<"Closed due to weather">>}
WVLTNames == {"Maury County Schools", "Maury  County Schools"}
WVLTStatus == {<<"Closed">>}
GrayComments == {<<>>, <<"water main break">>}
GrayTypes == {<<"Schools">>, <<"Businesses">>}

\* one article of the NewsChannel 5 page, for the classifiers alone
ArticleNames ==
  NC5Names \cup
  {"", "  ", "Metro Nashville Public Schools", "MNPS", "Williamson Co Schools",
   "Some School Near Memphis", "Unknown Academy of Nowhere", "Jackson Academy",
   "Union", "Marshall County Schools Annex", "Marshall Academy",
   " Knox County Schools "}
ArticleStatus ==
  NC5Status \cup
  {<<>>, <<"">>, <<"2 hour delay, building closed">>, <<"Early dismissal">>,
   <<"Closed - virtual classes">>, <<"Dismissing early, remote Friday">>,
   <<"No school">>, <<"Opening late">>}

\* element.get_text(strip=True)
get_text(cell) == strip(cell[1])

\* The classifiers and the key over the texts the pages can hold, computed once.
NameTexts == {strip(t) : t \in ArticleNames \cup AN5Names \cup WVLTNames}
StatusTexts ==
  {"CLOSED"} \cup {strip(c[1]) : c \in (ArticleStatus \cup AN5Status \cup WVLTStatus) \ {<<>>}}

RegionOf == [n \in NameTexts |-> classify_region(n)]
StatusOf == [t \in StatusTexts |-> classify_status(t)]

Closing(name, status, status_detail, region, source) ==
  [name |-> name, status |-> status, status_detail |-> status_detail,
   region |-> region, source |-> source]

\* the record scrape_newschannel5 appends for one article
NC5Record(name_el, status_el) ==
  LET name == get_text(name_el)
      status_detail == IF status_el # <<>> THEN get_text(status_el) ELSE "CLOSED"
  IN  Closing(name, StatusOf[status_detail], status_detail, RegionOf[name],
              "NewsChannel 5")

\* status_detail = f"{status_text} - {comments}" if comments else status_text
GrayDetail(status_text, comments) ==
  IF comments # "" THEN status_text \o " - " \o comments ELSE status_text

\* the record scrape_gray_media builds for one table row
GrayRecord(name_el, status_el, comments_el, source_name) ==
  LET name == get_text(name_el)
      status_text == IF status_el # <<>> THEN get_text(status_el) ELSE "CLOSED"
      comments == IF comments_el # <<>> THEN get_text(comments_el) ELSE ""
  IN  Closing(name, StatusOf[status_text], GrayDetail(status_text, comments),
              RegionOf[name], source_name)

\* if org_type in ['Schools', 'Colleges', '']
GrayIncluded(type_el) ==
  LET org_type == IF type_el # <<>> THEN get_text(type_el) ELSE ""
  IN  org_type \in {"Schools", "Colleges", ""}

(***************************************************************************)
(* deduplicate_closings.  seen is a dict: a sequence of entries in         *)
(* insertion order, each a key and the closing stored under it.            *)
(***************************************************************************)
RECURSIVE FirstWord(_)
FirstWord(s) ==
  IF s = "" \/ IsSpace(SubSeq(s, 1, 1)) THEN ""
  ELSE SubSeq(s, 1, 1) \o FirstWord(SubSeq(s, 2, Len(s)))

\* a key cut at the first blank: closing['name'].upper().split()[0]
DedupKey_FirstWord(name) == FirstWord(strip(upper(name)))

RECURSIVE Collapse(_)
\* runs of blanks made single blanks: ' '.join(s.split(' ')) without the trimming
Collapse(s) ==
  IF Len(s) < 2 THEN s
  ELSE IF IsSpace(SubSeq(s, 1, 1)) /\ IsSpace(SubSeq(s, 2, 2))
    THEN Collapse(SubSeq(s, 2, Len(s)))
  ELSE SubSeq(s, 1, 1) \o Collapse(SubSeq(s, 2, Len(s)))

\* a key with the internal whitespace collapsed as well
DedupKey_Collapse(name) == Collapse(strip(upper(name)))

\* a key that keeps the letter case: closing['name'].strip()
DedupKey_NoUpper(name) == strip(name)

\* key = closing['name'].upper().strip()
DedupKey(name) == strip(upper(name))

KeyOf == [n \in NameTexts |-> DedupKey(n)]

SeenKeys(s) == {s[i].key : i \in 1..Len(s)}
SeenAt(s, key) == CHOOSE i \in 1..Len(s) : s[i].key = key

\* merge that overwrites the status_detail alone
DedupFold_DetailOnly(s, closing) ==
  LET key == KeyOf[closing.name]
  IN  IF key \notin SeenKeys(s)
        THEN Append(s, [key |-> key, val |-> closing])
      ELSE IF Len(closing.status_detail) > Len(s[SeenAt(s, key)].val.status_detail)
        THEN [s EXCEPT ![SeenAt(s, key)].val.status_detail = closing.status_detail]
      ELSE s

\* >= in place of >
DedupFold_ReplaceOnTie(s, closing) ==
  LET key == KeyOf[closing.name]
  IN  IF key \notin SeenKeys(s)
        THEN Append(s, [key |-> key, val |-> closing])
      ELSE IF Len(closing.status_detail) >= Len(s[SeenAt(s, key)].val.status_detail)
        THEN [s EXCEPT ![SeenAt(s, key)].val = closing]
      ELSE s

\* the raw name in place of the key
DedupFold_ByName(s, closing) ==
  LET key == closing.name
  IN  IF key \notin SeenKeys(s)
        THEN Append(s, [key |-> key, val |-> closing])
      ELSE IF Len(closing.status_detail) > Len(s[SeenAt(s, key)].val.status_detail)
        THEN [s EXCEPT ![SeenAt(s, key)].val = closing]
      ELSE s

\* seen[key] = closing whatever the lengths
DedupFold_LastWins(s, closing) ==
  LET key == KeyOf[closing.name]
  IN  IF key \notin SeenKeys(s)
        THEN Append(s, [key |-> key, val |-> closing])
      ELSE [s EXCEPT ![SeenAt(s, key)].val = closing]

\* a replacement that deletes the entry and inserts it anew, at the end
DedupFold_MoveToEnd(s, closing) ==
  LET key == KeyOf[closing.name]
  IN  IF key \notin SeenKeys(s)
        THEN Append(s, [key |-> key, val |-> closing])
      ELSE IF Len(closing.status_detail) > Len(s[SeenAt(s, key)].val.status_detail)
        THEN Append(SelectSeq(s, LAMBDA e : e.key # key), [key |-> key, val |-> closing])
      ELSE s

\* one iteration of the loop over closings
DedupFold(s, closing) ==
  LET key == KeyOf[closing.name]
  IN  IF key \notin SeenKeys(s)
        THEN Append(s, [key |-> key, val |-> closing])
      ELSE IF Len(closing.status_detail) > Len(s[SeenAt(s, key)].val.status_detail)
        THEN [s EXCEPT ![SeenAt(s, key)].val = closing]
      ELSE s

\* list(seen.values())
Values(s) == [i \in 1..Len(s) |-> s[i].val]

(***************************************************************************)
(* main: the statistics and the payload.                                   *)
(***************************************************************************)
Count(cs, field, v) == Cardinality({i \in 1..Len(cs) : cs[i][field] = v})

\* by_status[c['status']] = 1: the count is set, never added to
Tally_Presence(cs, field) ==
  [v \in {cs[i][field] : i \in 1..Len(cs)} |-> 1]

\* by_status[c['status']] = by_status.get(c['status'], 0) + 1, and by_region alike
Tally(cs, field) ==
  [v \in {cs[i][field] : i \in 1..Len(cs)} |-> Count(cs, field, v)]

Payload(cs, srcs) ==
  [meta |-> [total_closings |-> Len(cs), by_status |-> Tally(cs, "status"),
             by_region |-> Tally(cs, "region"), sources |-> srcs],
   closings |-> cs]

(***************************************************************************)
(* The run of main.                                                        *)
(***************************************************************************)
Init ==
  /\ pc = "nc5"
  /\ closings = <<>>
  /\ all_closings = <<>>
  /\ sources_used = <<>>
  /\ dd_closings = <<>>
  /\ seen = <<>>
  /\ idx = 0
  /\ output = <<>>

Scraped == Len(all_closings) + Len(closings)

\* scrape_newschannel5, one article of the page
NC5Article(names, statuses, cap) ==
  /\ pc = "nc5"
  /\ Scraped < cap
  /\ \E name_el \in {<<n>> : n \in names}, status_el \in statuses :
       closings' = Append(closings, NC5Record(name_el, status_el))
  /\ UNCHANGED <<pc, all_closings, sources_used, dd_closings, seen, idx, output>>

\* scrape_gray_media, one row of the table
GrayRow(at, source_name, names, statuses, cap) ==
  /\ pc = at
  /\ Scraped < cap
  /\ \E name_el \in {<<n>> : n \in names}, status_el \in statuses,
        comments_el \in GrayComments, type_el \in GrayTypes :
       closings' = IF GrayIncluded(type_el)
                   THEN Append(closings,
                               GrayRecord(name_el, status_el, comments_el, source_name))
                   ELSE closings
  /\ UNCHANGED <<pc, all_closings, sources_used, dd_closings, seen, idx, output>>

\* the scraper returns (with no rows when the fetch failed); main extends
\* all_closings and sources_used when the list is not empty
ScraperReturn(at, source_name, next) ==
  /\ pc = at
  /\ pc' = next
  /\ all_closings' = all_closings \o closings
  /\ sources_used' = IF closings # <<>> THEN Append(sources_used, source_name)
                     ELSE sources_used
  /\ closings' = <<>>
  /\ UNCHANGED <<dd_closings, seen, idx, output>>

\* all_closings = deduplicate_closings(all_closings): the call
DedupCall ==
  /\ pc = "main"
  /\ pc' = "dedup"
  /\ dd_closings' = all_closings
  /\ seen' = <<>>
  /\ idx' = 0
  /\ UNCHANGED <<closings, all_closings, sources_used, output>>

\* for closing in closings: one iteration
DedupStep ==
  /\ pc = "dedup"
  /\ idx < Len(dd_closings)
  /\ seen' = DedupFold(seen, dd_closings[idx + 1])
  /\ idx' = idx + 1
  /\ UNCHANGED <<pc, closings, all_closings, sources_used, dd_closings, output>>

\* the return of deduplicate_closings, then the statistics and the payload
DedupReturn ==
  /\ pc = "dedup"
  /\ idx = Len(dd_closings)
  /\ pc' = "done"
  /\ all_closings' = Values(seen)
  /\ output' = <<Payload(Values(seen), sources_used)>>
  /\ UNCHANGED <<closings, sources_used, dd_closings, seen, idx>>

Next ==
  \/ NC5Article(NC5Names, NC5Status, MaxRecords)
  \/ ScraperReturn("nc5", "NewsChannel 5", "an5")
  \/ GrayRow("an5", "Action News 5", AN5Names, AN5Status, MaxRecords)
  \/ ScraperReturn("an5", "Action News 5", "wvlt")
  \/ GrayRow("wvlt", "WVLT", WVLTNames, WVLTStatus, MaxRecords)
  \/ ScraperReturn("wvlt", "WVLT", "main")
  \/ DedupCall
  \/ DedupStep
  \/ DedupReturn

Spec == Init /\ [][Next]_vars

\* one article of the NewsChannel 5 page, over the wider names and status texts
NextArticle == NC5Article(ArticleNames, ArticleStatus, MaxArticles)

SpecArticle == Init /\ [][NextArticle]_vars

(***************************************************************************)
(* Vocabulary of the properties.                                           *)
(***************************************************************************)
Done == pc = "done"

\* the closings of the payload (<<>> before the payload exists)
Out == IF output = <<>> THEN <<>> ELSE output[1].closings

\* the positions of the input of deduplicate_closings that carry a key
Group(key) == {i \in 1..Len(dd_closings) : KeyOf[dd_closings[i].name] = key}

InputKeys == {KeyOf[dd_closings[i].name] : i \in 1..Len(dd_closings)}

Min(S) == CHOOSE m \in S : \A n \in S : m <= n

\* the source identifiers an emitted record carries: its one source field
SourcesOf(r) == <<r.source>>

RECURSIVE FirstSeen(_, _)
\* the distinct elements of a sequence in order of first appearance
FirstSeen(s, n) ==
  IF n = 0 THEN <<>>
  ELSE LET before == FirstSeen(s, n - 1)
       IN  IF \E i \in 1..Len(before) : before[i] = s[n] THEN before
           ELSE Append(before, s[n])

\* the sources that reported a key, each once, in order of first appearance
SourcesReporting(key) ==
  LET srcs == [i \in 1..Len(dd_closings) |-> dd_closings[i].source]
      all == FirstSeen(srcs, Len(srcs))
  IN  SelectSeq(all, LAMBDA x : \E i \in Group(key) : dd_closings[i].source = x)

\* the first input record, among those of a key, of maximal status_detail length
Longest(key) ==
  dd_closings[Min({i \in Group(key) :
                     \A j \in Group(key) :
                       Len(dd_closings[j].status_detail)
                         <= Len(dd_closings[i].status_detail)})]

\* the scenario of C1: X is NewsChannel 5 and Y is Action News 5
MauryScenario ==
  /\ Len(dd_closings) = 2
  /\ dd_closings[1].name = "Maury County Public Schools"
  /\ dd_closings[1].status_detail = "Closed"
  /\ dd_closings[1].source = "NewsChannel 5"
  /\ dd_closings[2].name = "Maury County Schools"
  /\ dd_closings[2].status_detail = "Closed due to weather"
  /\ dd_closings[2].source = "Action News 5"

(***************************************************************************)
(* C1, as stated: the two Maury County records come out as one merged      *)
(* record with region Middle Tennessee, status CLOSED, status_detail       *)
(* "Closed due to weather" and sources [X, Y].                             *)
(***************************************************************************)
C1_MergedIntoOne ==
  (Done /\ MauryScenario) =>
    /\ Len(Out) = 1
    /\ Out[1].region = Middle
    /\ Out[1].status = "CLOSED"
    /\ Out[1].status_detail = "Closed due to weather"
    /\ SourcesOf(Out[1]) = <<"NewsChannel 5", "Action News 5">>

(***************************************************************************)
(* C1, amended: the two names have different keys, so the two records come *)
(* out as two records, in input order, each with region Middle Tennessee,  *)
(* status CLOSED, its own status_detail and its own single source.         *)
(***************************************************************************)
C1_TwoRecords ==
  (Done /\ MauryScenario) =>
    /\ Len(Out) = 2
    /\ Out[1] = Closing("Maury County Public Schools", "CLOSED", "Closed", Middle,
                        "NewsChannel 5")
    /\ Out[2] = Closing("Maury County Schools", "CLOSED", "Closed due to weather",
                        Middle, "Action News 5")

C1_Witness == Done /\ MauryScenario /\ Len(Out) = 2

(***************************************************************************)
(* C2, as stated: a merge into an existing record leaves its display name, *)
(* status and region unchanged.                                            *)
(***************************************************************************)
C2_FirstClassificationWins ==
  [][\A i \in 1..Len(seen) :
       /\ i <= Len(seen')
       /\ seen'[i].val.name = seen[i].val.name
       /\ seen'[i].val.status = seen[i].val.status
       /\ seen'[i].val.region = seen[i].val.region]_vars

(***************************************************************************)
(* C2, amended: a merge leaves the existing record's region unchanged; it  *)
(* leaves the whole record unchanged when the later status_detail is not   *)
(* strictly longer, and otherwise replaces the whole record (display name, *)
(* status, status_detail and source) by the later record.                  *)
(***************************************************************************)
C2_WholeRecordReplaced ==
  [][(pc = "dedup" /\ idx' = idx + 1) =>
       LET closing == dd_closings[idx + 1]
       IN  \A i \in 1..Len(seen) :
             /\ i <= Len(seen')
             /\ seen'[i].key = seen[i].key
             /\ seen'[i].val.region = seen[i].val.region
             /\ IF /\ seen[i].key = KeyOf[closing.name]
                   /\ Len(closing.status_detail) > Len(seen[i].val.status_detail)
                THEN seen'[i].val = closing
                ELSE seen'[i].val = seen[i].val]_vars

\* a later record with another spelling and another status has replaced the first
C2_Witness ==
  /\ pc = "dedup"
  /\ idx = 2
  /\ KeyOf[dd_closings[1].name] = KeyOf[dd_closings[2].name]
  /\ dd_closings[1].name # dd_closings[2].name
  /\ dd_closings[1].status # dd_closings[2].status
  /\ seen[1].val = dd_closings[2]

(***************************************************************************)
(* C3, as stated: the merged record lists every source that reported its   *)
(* key, each once, in order of first appearance.                           *)
(***************************************************************************)
C3_SourcesAccumulate ==
  Done => \A i \in 1..Len(Out) :
            SourcesOf(Out[i]) = SourcesReporting(KeyOf[Out[i].name])

(***************************************************************************)
(* C3, amended: the merged record carries exactly one source identifier,   *)
(* the source of the record kept for the key, which is the first record of *)
(* the key among those with the longest status_detail.                     *)
(***************************************************************************)
C3_SourceOfKeptRecord ==
  Done => \A i \in 1..Len(Out) :
            /\ Len(SourcesOf(Out[i])) = 1
            /\ Out[i].source = Longest(KeyOf[Out[i].name]).source

\* two sources reported the key and the record of the second one was kept
C3_Witness ==
  /\ Done
  /\ Len(dd_closings) = 3
  /\ Len(Out) = 1
  /\ Len(SourcesReporting(KeyOf[Out[1].name])) = 2
  /\ Out[1].source = "Action News 5"

(***************************************************************************)
(* C4: the output holds one record per dedup key: no two emitted records   *)
(* share a key, and every key of the input is the key of an emitted record.*)
(***************************************************************************)
C4_OneRecordPerKey ==
  Done =>
    /\ \A i, j \in 1..Len(Out) :
         KeyOf[Out[i].name] = KeyOf[Out[j].name] => i = j
    /\ {KeyOf[Out[i].name] : i \in 1..Len(Out)} = InputKeys

\* two spellings of one key and a second key came out as two records
C4_Witness ==
  /\ Done
  /\ Len(dd_closings) = 3
  /\ Cardinality({dd_closings[i].name : i \in 1..3}) = 3
  /\ Len(Out) = 2

(***************************************************************************)
(* C5: of two records of one key whose status_detail lengths differ, the   *)
(* merged record keeps the longer text, whichever came first.              *)
(***************************************************************************)
C5_LongerDetailWins ==
  Done =>
    \A i, j \in 1..Len(dd_closings) :
      LET key == KeyOf[dd_closings[i].name]
          di == dd_closings[i].status_detail
          dj == dd_closings[j].status_detail
      IN  (Group(key) = {i, j} /\ Len(di) > Len(dj)) =>
            \E k \in 1..Len(Out) :
              /\ KeyOf[Out[k].name] = key
              /\ Out[k].status_detail = di

\* the longer text came first and was kept
C5_Witness ==
  /\ Done
  /\ Len(dd_closings) = 2
  /\ dd_closings[1].status_detail = "Closed - water main break"
  /\ dd_closings[2].status_detail = "Closed"
  /\ Len(Out) = 1
  /\ Out[1].status_detail = "Closed - water main break"

(***************************************************************************)
(* C6: from one processed record to the next, the status_detail stored     *)
(* under a key never gets shorter, and it changes only to a strictly       *)
(* longer text (a text of equal length leaves the stored one in place).    *)
(***************************************************************************)
C6_DetailLengthMonotone ==
  [][\A i \in 1..Len(seen) :
       /\ i <= Len(seen')
       /\ seen'[i].key = seen[i].key
       /\ Len(seen'[i].val.status_detail) >= Len(seen[i].val.status_detail)
       /\ seen'[i].val.status_detail # seen[i].val.status_detail =>
            Len(seen'[i].val.status_detail) > Len(seen[i].val.status_detail)]_vars

\* a tie was kept, then a strictly longer text replaced it
C6_Witness ==
  /\ pc = "dedup"
  /\ idx = 3
  /\ Len(seen) = 1
  /\ dd_closings[1].status_detail = "Closed"
  /\ dd_closings[2].status_detail = "Remote"
  /\ Len(dd_closings[3].status_detail) > Len("Closed")
  /\ seen[1].val = dd_closings[3]

(***************************************************************************)
(* The classifiers, stated layer by layer, over the texts the page of      *)
(* SpecArticle can hold.                                                   *)
(***************************************************************************)
StatusKinds == {"CLOSED", "DELAYED", "EARLY_DISMISSAL", "REMOTE", "MODIFIED"}

GroupKind == <<"DELAYED", "EARLY_DISMISSAL", "REMOTE", "CLOSED">>
GroupKeywords == <<DelayedKw, EarlyKw, RemoteKw, ClosedKw>>

\* the keyword groups with a keyword occurring in the upper-cased text
GroupsHit(text) ==
  {g \in 1..Len(GroupKind) :
     \E k \in 1..Len(GroupKeywords[g]) : Contains(upper(text), GroupKeywords[g][k])}

FirstGroupKind ==
  [t \in StatusTexts |->
     IF GroupsHit(t) = {} THEN "CLOSED" ELSE GroupKind[Min(GroupsHit(t))]]

\* the table entries that succeed for a name, layer by layer
ExactHits(name) ==
  {i \in 1..Len(DISTRICT_TO_REGION) : DISTRICT_TO_REGION[i][1] = strip(name)}
PartialHits(name) ==
  {i \in 1..Len(DISTRICT_TO_REGION) :
     \/ Contains(upper(strip(name)), upper(DISTRICT_TO_REGION[i][1]))
     \/ Contains(upper(DISTRICT_TO_REGION[i][1]), upper(strip(name)))}
CountyHits(name) ==
  {i \in 1..Len(COUNTY_REGIONS) : Contains(upper(name), upper(COUNTY_REGIONS[i][1]))}
CityHits(name) ==
  {i \in 1..Len(CITY_REGIONS) : Contains(upper(name), upper(CITY_REGIONS[i][1]))}

\* the number of the first layer that succeeds, 5 for the default
LayerOf ==
  [n \in NameTexts |->
     IF ExactHits(n) # {} THEN 1
     ELSE IF PartialHits(n) # {} THEN 2
     ELSE IF CountyHits(n) # {} THEN 3
     ELSE IF CityHits(n) # {} THEN 4
     ELSE 5]

LayeredRegion ==
  [n \in NameTexts |->
     CASE LayerOf[n] = 1 -> DISTRICT_TO_REGION[Min(ExactHits(n))][2]
       [] LayerOf[n] = 2 -> DISTRICT_TO_REGION[Min(PartialHits(n))][2]
       [] LayerOf[n] = 3 -> COUNTY_REGIONS[Min(CountyHits(n))][2]
       [] LayerOf[n] = 4 -> CITY_REGIONS[Min(CityHits(n))][2]
       [] OTHER -> Other]

(***************************************************************************)
(* C7: classify_status gives every status text, the empty one included,    *)
(* one of the five kinds: the kind of the first keyword group, in the      *)
(* order DELAYED, EARLY_DISMISSAL, REMOTE, CLOSED, with a keyword in the   *)
(* upper-cased text, and CLOSED when no group matches; "2 hour delay,      *)
(* building closed" is DELAYED.                                            *)
(***************************************************************************)
C7_FirstKeywordGroupWins ==
  \A i \in 1..Len(closings) :
    LET r == closings[i]
    IN  /\ r.status \in StatusKinds
        /\ r.status = FirstGroupKind[r.status_detail]
        /\ r.status_detail = "2 hour delay, building closed" => r.status = "DELAYED"
        /\ r.status_detail = "" => r.status = "CLOSED"

\* a text with a DELAYED and a CLOSED keyword has been classified
C7_Witness ==
  \E i \in 1..Len(closings) :
    /\ closings[i].status_detail = "2 hour delay, building closed"
    /\ Cardinality(GroupsHit(closings[i].status_detail)) = 2
    /\ closings[i].status = "DELAYED"

(***************************************************************************)
(* C8: classify_region gives the result of the first layer that succeeds:  *)
(* exact district key, then first district key (insertion order) that      *)
(* contains or is contained in the name ignoring case, then first county   *)
(* key in the name, then first city key in the name, then "Other".         *)
(***************************************************************************)
C8_FirstLayerWins ==
  \A i \in 1..Len(closings) : closings[i].region = LayeredRegion[closings[i].name]

\* a name with a county key (layer 3) and a city key (layer 4) of different regions
C8_Witness ==
  \E i \in 1..Len(closings) :
    LET n == closings[i].name
    IN  /\ LayerOf[n] = 3
        /\ CityHits(n) # {}
        /\ CITY_REGIONS[Min(CityHits(n))][2] # closings[i].region
        /\ closings[i].region = COUNTY_REGIONS[Min(CountyHits(n))][2]

(***************************************************************************)
(* C9: classify_region gives every name one of the four regions, and the   *)
(* empty or whitespace-only name, which identifies no organization of the  *)
(* tables, gets the default "Other".                                       *)
(***************************************************************************)
C9_EmptyNameIsOther ==
  \A i \in 1..Len(closings) :
    /\ closings[i].region \in Regions
    /\ strip(closings[i].name) = "" => closings[i].region = Other

(***************************************************************************)
(* Ordinal comparison of names (code point order of the characters).       *)
(***************************************************************************)
CodePoints ==
  " &',-.0123456789ABCDEFGHIJKLMNOPQRSTUVWXYZabcdefghijklmnopqrstuvwxyz"

Ord(c) == CHOOSE i \in 1..Len(CodePoints) : SubSeq(CodePoints, i, i) = c

RECURSIVE StrLess(_, _)
\* a < b on Python strings
StrLess(a, b) ==
  IF b = "" THEN FALSE
  ELSE IF a = "" THEN TRUE
  ELSE IF SubSeq(a, 1, 1) # SubSeq(b, 1, 1)
    THEN Ord(SubSeq(a, 1, 1)) < Ord(SubSeq(b, 1, 1))
  ELSE StrLess(SubSeq(a, 2, Len(a)), SubSeq(b, 2, Len(b)))

\* the keys of the input in order of first occurrence
FirstKeys ==
  FirstSeen([i \in 1..Len(dd_closings) |-> KeyOf[dd_closings[i].name]],
            Len(dd_closings))

(***************************************************************************)
(* C10, as stated: the closings of the payload are sorted by display name  *)
(* in ascending ordinal order.                                             *)
(***************************************************************************)
C10_SortedByName ==
  Done => \A i, j \in 1..Len(Out) : i < j => ~StrLess(Out[j].name, Out[i].name)

(***************************************************************************)
(* C10, amended: the closings of the payload are in the order in which     *)
(* their dedup keys first occur in the records delivered (NewsChannel 5,   *)
(* then Action News 5, then WVLT); they are not sorted by name.            *)
(***************************************************************************)
C10_FirstOccurrenceOrder ==
  Done => [i \in 1..Len(Out) |-> KeyOf[Out[i].name]] = FirstKeys

\* two records came out with the greater name first, the first one once replaced
C10_Witness ==
  /\ Done
  /\ Len(dd_closings) = 3
  /\ Len(Out) = 2
  /\ StrLess(Out[2].name, Out[1].name)
  /\ Out[1] = dd_closings[3]

(***************************************************************************)
(* The statistics of the payload.                                          *)
(***************************************************************************)
Meta == output[1].meta

RECURSIVE SumOver(_, _)
\* the sum of the counts of a mapping over a set of its keys
SumOver(f, S) ==
  IF S = {} THEN 0
  ELSE LET v == CHOOSE x \in S : TRUE IN f[v] + SumOver(f, S \ {v})

Total(f) == SumOver(f, DOMAIN f)

\* no two records of the input share a dedup key
DisjointInput ==
  \A i, j \in 1..Len(dd_closings) :
    KeyOf[dd_closings[i].name] = KeyOf[dd_closings[j].name] => i = j

(***************************************************************************)
(* C11: total_closings is the number of emitted records, and the counts of *)
(* by_status and of by_region each sum to it; an input without a repeated  *)
(* dedup key gives one emitted record per input record, and the empty      *)
(* input gives the empty output with total_closings 0.                     *)
(***************************************************************************)
C11_CountsSumToTotal ==
  Done =>
    /\ Meta.total_closings = Len(Out)
    /\ Total(Meta.by_status) = Meta.total_closings
    /\ Total(Meta.by_region) = Meta.total_closings
    /\ \A s \in DOMAIN Meta.by_status :
         Meta.by_status[s] = Cardinality({i \in 1..Len(Out) : Out[i].status = s})
    /\ DisjointInput => Len(Out) = Len(dd_closings)
    /\ dd_closings = <<>> => (Out = <<>> /\ Meta.total_closings = 0)

\* three records without a repeated key came out as three, two of one status
C11_Witness ==
  /\ Done
  /\ DisjointInput
  /\ Len(dd_closings) = 3
  /\ Meta.total_closings = 3
  /\ Cardinality(DOMAIN Meta.by_status) = 2

(***************************************************************************)
(* The dedup key as a function of the name.                                *)
(***************************************************************************)
\* two texts that differ at most in the case of their letters
SameButCase(a, b) ==
  /\ Len(a) = Len(b)
  /\ \A k \in 1..Len(a) : upperChar(SubSeq(a, k, k)) = upperChar(SubSeq(b, k, k))

CaseTwins == {p \in NameTexts \X NameTexts : SameButCase(p[1], p[2])}

\* the key function applied to the keys it gives
KeyOfKey == [k \in {KeyOf[n] : n \in NameTexts} |-> DedupKey(k)]

\* the entries of seen under which the loop has stored a name
EntriesOf(name) == {k \in 1..Len(seen) : seen[k].key = KeyOf[name]}

WilsonKeysAgree == DedupKey("Wilson County Schools") = DedupKey("wilson county schools")

(***************************************************************************)
(* C12: the dedup key function is idempotent (the key of a key is that     *)
(* key) and insensitive to letter case: two names that differ only in case *)
(* get the same key, "Wilson County Schools" and "wilson county schools"   *)
(* in particular, and are stored under one entry.                          *)
(***************************************************************************)
C12_KeyIdempotentCaseBlind ==
  /\ WilsonKeysAgree
  /\ \A k \in 1..Len(seen) : KeyOfKey[seen[k].key] = seen[k].key
  /\ \A i, j \in 1..idx :
       <<dd_closings[i].name, dd_closings[j].name>> \in CaseTwins =>
         /\ KeyOf[dd_closings[i].name] = KeyOf[dd_closings[j].name]
         /\ EntriesOf(dd_closings[i].name) = EntriesOf(dd_closings[j].name)
         /\ Cardinality(EntriesOf(dd_closings[i].name)) = 1

\* two spellings that differ only in case have been stored under one entry
C12_Witness ==
  /\ pc = "dedup"
  /\ idx = 2
  /\ dd_closings[1].name # dd_closings[2].name
  /\ <<dd_closings[1].name, dd_closings[2].name>> \in CaseTwins
  /\ Len(seen) = 1
  /\ KeyOfKey[seen[1].key] = seen[1].key

(***************************************************************************)
(* The key as C13 states it: lower-cased, the longest matching trailing    *)
(* suffix removed, whitespace runs collapsed, trimmed.                     *)
(***************************************************************************)
UpperChars == {SubSeq(UPPER, i, i) : i \in 1..Len(UPPER)}

lowerChar(c) ==
  IF c \in UpperChars
  THEN LET i == CHOOSE j \in 1..Len(UPPER) : SubSeq(UPPER, j, j) = c
       IN  SubSeq(LOWER, i, i)
  ELSE c

RECURSIVE lower(_)
lower(s) ==
  IF s = "" THEN ""
  ELSE lowerChar(SubSeq(s, 1, 1)) \o lower(SubSeq(s, 2, Len(s)))

Suffixes == <<"school district", "schools", "county schools", "city schools", "school">>

EndsWith(s, suf) ==
  Len(s) >= Len(suf) /\ SubSeq(s, Len(s) - Len(suf) + 1, Len(s)) = suf

\* the text without the longest suffix it ends with (one suffix at most)
StripSuffix(s) ==
  LET hits == {i \in 1..Len(Suffixes) : EndsWith(s, Suffixes[i])}
  IN  IF hits = {} THEN s
      ELSE LET i == CHOOSE h \in hits :
                      \A g \in hits : Len(Suffixes[g]) <= Len(Suffixes[h])
           IN  SubSeq(s, 1, Len(s) - Len(Suffixes[i]))

StatedKeyOf == [n \in NameTexts |-> strip(Collapse(StripSuffix(lower(n))))]

(***************************************************************************)
(* C13, as stated: the dedup key is the name lower-cased, with the longest *)
(* matching trailing suffix removed, whitespace runs collapsed, trimmed;   *)
(* so names that differ only by such a suffix or in the length of internal *)
(* whitespace runs merge into one record.                                  *)
(***************************************************************************)
C13_SuffixAndBlanksIgnored ==
  Done => \A k, l \in 1..Len(Out) :
            StatedKeyOf[Out[k].name] = StatedKeyOf[Out[l].name] => k = l

(***************************************************************************)
(* C13, amended: the dedup key of a name is the name upper-cased and       *)
(* trimmed; no suffix is removed and no internal whitespace is collapsed,  *)
(* so two names merge exactly when they differ at most in letter case      *)
(* (and surrounding whitespace).                                           *)
(***************************************************************************)
C13_KeyIsUpperTrim ==
  Done =>
    /\ \A k \in 1..Len(seen) : SameButCase(seen[k].key, seen[k].val.name)
    /\ \A i, j \in 1..Len(dd_closings) :
         EntriesOf(dd_closings[i].name) = EntriesOf(dd_closings[j].name)
           <=> <<dd_closings[i].name, dd_closings[j].name>> \in CaseTwins
    /\ \A k, l \in 1..Len(Out) :
         <<Out[k].name, Out[l].name>> \in CaseTwins => k = l

\* two names that differ only in an internal whitespace run came out as two records
C13_Witness ==
  /\ Done
  /\ Len(Out) = 2
  /\ Out[1].name # Out[2].name
  /\ Collapse(Out[2].name) = Out[1].name
  /\ StatedKeyOf[Out[1].name] = StatedKeyOf[Out[2].name]

\* the position at which the key of an emitted record first occurs in the input
FirstAt(r) == Min(Group(KeyOf[r.name]))

(***************************************************************************)
(* C14: every emitted record is one input record, whole and unmodified:    *)
(* the first record of its key, in input order, among those of maximal     *)
(* status_detail length; and the records are emitted in the order in which *)
(* their keys first occurred in the input.                                 *)
(***************************************************************************)
C14_EmittedIsLongestInput ==
  Done =>
    /\ \A k \in 1..Len(Out) :
         /\ \E i \in Group(KeyOf[Out[k].name]) : Out[k] = dd_closings[i]
         /\ Out[k] = Longest(KeyOf[Out[k].name])
    /\ \A k, l \in 1..Len(Out) : k < l => FirstAt(Out[k]) < FirstAt(Out[l])

\* the second record of the first key was kept whole, before the record of a later key
C14_Witness ==
  /\ Done
  /\ Len(dd_closings) = 3
  /\ Len(Out) = 2
  /\ KeyOf[dd_closings[1].name] = KeyOf[dd_closings[2].name]
  /\ dd_closings[1].name # dd_closings[2].name
  /\ dd_closings[1].source # dd_closings[2].source
  /\ Out[1] = dd_closings[2]
  /\ Out[2] = dd_closings[3]

====
